---- MODULE Spec2Model ----
(***************************************************************************)
(* Genetic algorithm for neural-network architecture search                *)
(* (vowel_classifier_ga.py): the population operators (initial population, *)
(* selection, crossover, mutate), the genome-to-network builder (Net) and  *)
(* the generation loop with its best-overall tracker, retrain and report.  *)
(*                                                                         *)
(* Encodings.  A gene is a record with the three keys of the Python dict.  *)
(* A dropout rate is kept in tenths; Python's None is the empty tuple and  *)
(* a present value x is the one-element tuple <<x>> (so None and 0.0 stay  *)
(* different values).  An accuracy correct/total is kept as its numerator  *)
(* over the fixed denominator ValTotal, and float("-inf") as NegInf.       *)
(* random.random() is kept in hundredths (0..99), mutation_rate likewise.  *)
(*                                                                         *)
(* Genomes are kept by value in the generation loop (Spec).  The loop is   *)
(* given a second time with genomes as lists of references to gene dicts   *)
(* (ObjSpec, heap), where sharing and the in-place writes of mutate show.  *)
(***************************************************************************)
EXTENDS Integers, Sequences, FiniteSets, TLC

VARIABLES
    EPOCHS,                     \* line 18
    population_size,            \* line 20
    num_generations,            \* line 21
    num_parents,                \* line 22
    blueprint,                  \* line 373
    input_dim, num_classes,     \* the D and K handed to Net (lines 399-400, 444)
    heap,                       \* the gene dicts, when genomes are kept as lists of references
    population,                 \* line 380 / 430
    generation,                 \* loop variable of line 386
    fitnesses,                  \* line 388
    parents,                    \* line 408
    parent1, parent2,           \* line 426
    child,                      \* lines 427-428
    mutation_rate,              \* local of mutate, line 281
    next_generation,            \* line 424
    best_overall_fitness,       \* line 383
    best_overall_architecture,  \* line 384
    network,                    \* layers of the Net built last (lines 304, 444)
    epochs_run,                 \* passes of the training loop over it (lines 313, 452)
    validation_accuracy,        \* line 486
    saved,                      \* the parameters written by torch.save (line 492)
    printed,                    \* the summary lines printed so far (420-421, 434-435, 487-489)
    error,                      \* the exception that ended the script, if any
    evaluated,                  \* genomes handed to compute_fitness in this generation
    evaluated_fitnesses,        \* every fitness value returned so far in the run
    phases,                     \* number of evaluation phases started
    pc                          \* the step the script executes next

vars == <<EPOCHS, population_size, num_generations, num_parents, blueprint,
          input_dim, num_classes, heap, population, generation, fitnesses, parents, parent1, parent2,
          child, mutation_rate, next_generation, best_overall_fitness,
          best_overall_architecture, network, epochs_run, validation_accuracy,
          saved, printed, error, evaluated, evaluated_fitnesses, phases, pc>>

----------------------------------------------------------------------------
(* Bounds of the model *)

MaxPop == 3         \* population_size and num_parents range over 1..MaxPop
MaxGen == 2         \* num_generations ranges over 0..MaxGen
MaxEvals == 6       \* population_size * num_generations stays within MaxEvals
ValTotal == 1       \* number of validation samples (total, line 341)
MaxLen == 2         \* longest genome handed to an operator checked on its own
MaxFit == 2         \* largest fitness handed to selection checked on its own
MaxWidth == 3       \* largest D and K handed to Net checked on its own

----------------------------------------------------------------------------
(* Values *)

None == <<>>
Some(x) == <<x>>

NegInf == -1
Nsamps == 3334
Nclasses == 6

\* the value line 18 gives EPOCHS
SourceEpochs == 20

Keys == {"num_neurons", "activation", "dropout_rate"}

Min(a, b) == IF a <= b THEN a ELSE b

Head_n(s, n) == SubSeq(s, 1, Min(n, Len(s)))

\* the blueprint of lines 373-378
SourceBlueprint ==
    [max_n_layers |-> 5,
     neurons      |-> <<4, 8, 16, 32, 64, 128, 256>>,
     activations  |-> <<"relu", "leaky_relu", "sigmoid", "tanh">>,
     dropout      |-> <<None, Some(1), Some(2), Some(3), Some(4), Some(5)>>]

\* the same blueprint cut down: two layers at most, the first candidate of each list
BoundedBlueprint ==
    [max_n_layers |-> 2,
     neurons      |-> Head_n(SourceBlueprint.neurons, 1),
     activations  |-> Head_n(SourceBlueprint.activations, 1),
     dropout      |-> Head_n(SourceBlueprint.dropout, 1)]

\* candidate lists of mutate, lines 292, 294, 296
MutNeurons == <<4, 8, 16, 32>>
MutActivations == <<"relu", "sigmoid", "tanh", "softmax">>
MutDropout == <<None, Some(1), Some(2), Some(3)>>

\* the value line 281 gives mutation_rate (0.1, in hundredths)
MutationRate == 10

----------------------------------------------------------------------------
(* Net.__init__, lines 127-150: the layer list handed to nn.Sequential *)

Linear(i, o) == [layer |-> "Linear", in_features |-> i, out_features |-> o]
Activation(name) == [layer |-> name]
Dropout(p) == [layer |-> "Dropout", p |-> p]

\* truth value of a dropout rate in "if gene['dropout_rate']:" (None and 0.0 are false)
Truthy(d) == d # None /\ d[1] # 0

ActivationLayers(gene) ==
    IF gene.activation = "relu" THEN <<Activation("ReLU")>>
    ELSE IF gene.activation = "leaky_relu" THEN <<Activation("LeakyReLU")>>
    ELSE IF gene.activation = "sigmoid" THEN <<Activation("Sigmoid")>>
    ELSE IF gene.activation = "tanh" THEN <<Activation("Tanh")>>
    ELSE <<>>

DropoutLayers(gene) ==
    IF Truthy(gene.dropout_rate) THEN <<Dropout(gene.dropout_rate[1])>> ELSE <<>>

RECURSIVE HiddenLayers(_, _)
HiddenLayers(genome, input_features) ==
    IF genome = <<>> THEN <<>>
    ELSE LET gene == Head(genome)
         IN  <<Linear(input_features, gene.num_neurons)>>
             \o ActivationLayers(gene)
             \o DropoutLayers(gene)
             \o HiddenLayers(Tail(genome), gene.num_neurons)

\* an output layer fed from the input width
LastWidth_input(genome, D) == D

\* width fed to the output layer: D, or the last gene's num_neurons
LastWidth(genome, D) ==
    IF genome = <<>> THEN D ELSE genome[Len(genome)].num_neurons

Net(genome, D, K) ==
    HiddenLayers(genome, D) \o <<Linear(LastWidth(genome, D), K)>>

----------------------------------------------------------------------------
(* generate_initial_population, lines 194-208.  draws[i] holds, for        *)
(* individual i, one triple of list positions per layer; its length is the *)
(* outcome of random.randint(1, max_n_layers).                             *)

GeneDraws(bp) ==
    (DOMAIN bp.neurons) \X (DOMAIN bp.activations) \X (DOMAIN bp.dropout)

\* a layer count drawn from 0 on
GenomeDraws_from_zero(bp) ==
    UNION {[1..n -> GeneDraws(bp)] : n \in 0..bp.max_n_layers}

GenomeDraws(bp) ==
    UNION {[1..n -> GeneDraws(bp)] : n \in 1..bp.max_n_layers}

PopulationDraws(size, bp) == [1..size -> GenomeDraws(bp)]

generate_initial_population(size, bp, draws) ==
    [i \in 1..size |->
        [j \in 1..Len(draws[i]) |->
            [num_neurons  |-> bp.neurons[draws[i][j][1]],
             activation   |-> bp.activations[draws[i][j][2]],
             dropout_rate |-> bp.dropout[draws[i][j][3]]]]]

----------------------------------------------------------------------------
(* selection, lines 238-244: sorted(zip(fitnesses, population),            *)
(* key=fitness, reverse=True)[:num_parents].  Python's sort is stable,     *)
(* also with reverse=True: equal keys keep their input order.              *)

\* a sort that puts a later element before the earlier ones of equal key
SortedRank_ties_reversed(fs, i, n) ==
    Cardinality({j \in 1..n : fs[j] > fs[i] \/ (fs[j] = fs[i] /\ j > i)}) + 1

\* the place of zip item i among the n sorted items: behind every item of
\* greater key and behind the earlier items of equal key
SortedRank(fs, i, n) ==
    Cardinality({j \in 1..n : fs[j] > fs[i] \/ (fs[j] = fs[i] /\ j < i)}) + 1

selection(pop, fs, k) ==
    LET n == Min(Len(fs), Len(pop))
        sorted_population ==
            [r \in 1..n |-> pop[CHOOSE i \in 1..n : SortedRank(fs, i, n) = r]]
    IN  Head_n(sorted_population, k)

----------------------------------------------------------------------------
(* crossover, lines 258-268.  coins[i][key] is the outcome of              *)
(* random.choice([True, False]) for attribute key of position i.           *)

CoinDraws(n) == [1..n -> [Keys -> BOOLEAN]]

\* a crossover that takes whole genes: one coin per position
crossover_whole_genes(p1, p2, coins) ==
    [i \in 1..Min(Len(p1), Len(p2)) |->
        [key \in DOMAIN p1[i] |->
            IF coins[i]["num_neurons"] THEN p1[i][key] ELSE p2[i][key]]]

\* a crossover that keeps the tail of the longer parent
crossover_keeps_tail(p1, p2, coins) ==
    [i \in 1..(Len(p1) + Len(p2) - Min(Len(p1), Len(p2))) |->
        IF i <= Min(Len(p1), Len(p2))
        THEN [key \in DOMAIN p1[i] |-> IF coins[i][key] THEN p1[i][key] ELSE p2[i][key]]
        ELSE IF i <= Len(p1) THEN p1[i] ELSE p2[i]]

crossover(p1, p2, coins) ==
    [i \in 1..Min(Len(p1), Len(p2)) |->
        [key \in DOMAIN p1[i] |->
            IF coins[i][key] THEN p1[i][key] ELSE p2[i][key]]]

----------------------------------------------------------------------------
(* mutate, lines 281-297.  draws[i].roll is random.random() for gene i,    *)
(* draws[i].pick the three list positions random.choice returns when the   *)
(* gene is redrawn.                                                        *)

\* outcomes of random.random() on either side of the test of line 289
Rolls == {MutationRate - 1, MutationRate}
AllPicks == (DOMAIN MutNeurons) \X (DOMAIN MutActivations) \X (DOMAIN MutDropout)

\* a mutation that redraws the neuron count only
Redrawn_neurons_only(gene, pick) ==
    [key \in DOMAIN gene |->
        IF key = "num_neurons" THEN MutNeurons[pick[1]] ELSE gene[key]]

\* a mutation that lowers the neuron count by the number drawn
Redrawn_lowers_neurons(gene, pick) ==
    [key \in DOMAIN gene |->
        IF key = "num_neurons" THEN gene[key] - MutNeurons[pick[1]]
        ELSE IF key = "activation" THEN MutActivations[pick[2]]
        ELSE IF key = "dropout_rate" THEN MutDropout[pick[3]]
        ELSE gene[key]]

Redrawn(gene, pick) ==
    [key \in DOMAIN gene |->
        IF key = "num_neurons" THEN MutNeurons[pick[1]]
        ELSE IF key = "activation" THEN MutActivations[pick[2]]
        ELSE IF key = "dropout_rate" THEN MutDropout[pick[3]]
        ELSE gene[key]]

\* the loop of lines 282-296 for a given rate
mutate_genes(genome, rate, draws) ==
    [i \in 1..Len(genome) |->
        IF draws[i].roll < rate THEN Redrawn(genome[i], draws[i].pick)
        ELSE genome[i]]

mutate(genome, draws) == mutate_genes(genome, MutationRate, draws)

\* the draws a call can consume: picks are drawn only for a gene that is hit
\* of the rolls below the rate, and of those not below it, the one nearest to it
HitRolls(rate, rolls) ==
    {x \in rolls : x < rate /\ \A y \in rolls : y < rate => y <= x}
MissRolls(rate, rolls) ==
    {x \in rolls : x >= rate /\ \A y \in rolls : y >= rate => x <= y}

GeneMutationDraws(rate, rolls, picks) ==
    {[roll |-> r, pick |-> p] : r \in HitRolls(rate, rolls), p \in picks}
    \cup {[roll |-> r, pick |-> <<1, 1, 1>>] : r \in MissRolls(rate, rolls)}

MutationDraws(n, rate, rolls, picks) == [1..n -> GeneMutationDraws(rate, rolls, picks)]

----------------------------------------------------------------------------
(* The script, lines 380-492 *)

Accuracies == 0..ValTotal

\* len(range(n)): the passes of "for epoch in range(n)"
RangeLen(n) == IF n > 0 THEN n ELSE 0

\* draws of mutate sampled in a run: the first candidate of every list,
\* the last of every list (32, softmax, 0.3)
SampledPicks == {<<1, 1, 1>>, <<4, 4, 4>>}

Max(S) == CHOOSE x \in S : \A y \in S : y <= x

\* the last position holding v
Index_last(s, v) == CHOOSE i \in 1..Len(s) : s[i] = v /\ \A j \in (i + 1)..Len(s) : s[j] # v

\* list.index(v): the first position holding v
Index(s, v) == CHOOSE i \in 1..Len(s) : s[i] = v /\ \A j \in 1..(i - 1) : s[j] # v

Range(s) == {s[i] : i \in 1..Len(s)}

\* random.sample(parents, 2): two different positions, in order
SamplePairs(n) == {pr \in (1..n) \X (1..n) : pr[1] # pr[2]}

config == <<EPOCHS, population_size, num_generations, num_parents, blueprint,
           input_dim, num_classes>>
tracker == <<best_overall_fitness, best_overall_architecture>>
breeding == <<parent1, parent2, child, mutation_rate, next_generation>>
outcome == <<validation_accuracy, saved, error>>

\* lines 380-384, for a given configuration
Setup(size, gens, k, bp, draws) ==
    /\ population_size = size
    /\ num_generations = gens
    /\ num_parents = k
    /\ blueprint = bp
    /\ EPOCHS = SourceEpochs
    /\ input_dim = Nsamps
    /\ num_classes = Nclasses
    /\ heap = <<>>
    /\ population \in {generate_initial_population(size, bp, d) : d \in draws}
    /\ generation = 0
    /\ fitnesses = <<>>
    /\ parents = <<>>
    /\ parent1 = None
    /\ parent2 = None
    /\ child = None
    /\ mutation_rate = None
    /\ next_generation = <<>>
    /\ best_overall_fitness = NegInf
    /\ best_overall_architecture = None
    /\ network = None
    /\ epochs_run = 0
    /\ validation_accuracy = None
    /\ saved = None
    /\ printed = <<>>
    /\ error = None
    /\ evaluated = <<>>
    /\ evaluated_fitnesses = {}
    /\ phases = 0
    /\ pc = "Loop"

Init ==
    \E size \in 1..MaxPop, gens \in 0..MaxGen, k \in 1..MaxPop :
        /\ size * gens <= MaxEvals
        /\ Setup(size, gens, k, BoundedBlueprint,
                 PopulationDraws(size, BoundedBlueprint))

\* an uncaught exception ends the script
Raise(exc) ==
    /\ pc' = "Aborted"
    /\ error' = Some(exc)

\* a loop that runs once too often
MoreGenerations_one_more == generation <= num_generations

\* the test of the loop of line 386
MoreGenerations == generation < num_generations

\* line 386 and lines 388-389
StartGeneration ==
    /\ pc = "Loop"
    /\ IF MoreGenerations
       THEN /\ fitnesses' = <<>>
            /\ evaluated' = <<>>
            /\ phases' = phases + 1
            /\ pc' = IF population = <<>> THEN "Select" ELSE "EvaluateGeneration"
       ELSE /\ pc' = "Terminate"
            /\ UNCHANGED <<fitnesses, evaluated, phases>>
    /\ UNCHANGED <<config, heap, population, generation, parents, breeding, tracker,
                   network, epochs_run, printed, outcome, evaluated_fitnesses>>

\* lines 390-405: one pass of the loop over the population.  The training
\* loop of compute_fitness (line 313) makes len(range(epochs)) passes.
EvaluateGenome ==
    /\ pc = "EvaluateGeneration"
    /\ Len(fitnesses) < Len(population)
    /\ LET genome == population[Len(fitnesses) + 1]
       IN  \E fitness \in Accuracies :
             /\ network' = Some(Net(genome, input_dim, num_classes))
             /\ epochs_run' = RangeLen(EPOCHS)
             /\ fitnesses' = Append(fitnesses, fitness)
             /\ evaluated' = Append(evaluated, genome)
             /\ evaluated_fitnesses' = evaluated_fitnesses \cup {fitness}
    /\ pc' = IF Len(fitnesses') < Len(population) THEN "EvaluateGeneration" ELSE "Select"
    /\ UNCHANGED <<config, heap, population, generation, parents, breeding, tracker,
                   printed, outcome, phases>>

\* lines 406-408
Select ==
    /\ pc = "Select"
    /\ parents' = selection(population, fitnesses, num_parents)
    /\ pc' = "Track"
    /\ UNCHANGED <<config, heap, population, generation, fitnesses, breeding, tracker,
                   network, epochs_run, printed, outcome, evaluated, evaluated_fitnesses, phases>>

\* a tracker replaced on a tie as well
Improves_on_tie(best_fitness_this_gen) == best_fitness_this_gen >= best_overall_fitness

\* the test of line 416
Improves(best_fitness_this_gen) == best_fitness_this_gen > best_overall_fitness

\* a next generation that starts without the parents
CarryOver_none(ps) == <<>>

\* line 424: parents[:]
CarryOver(ps) == ps

\* lines 410-424; max() of an empty list raises ValueError
Track ==
    /\ pc = "Track"
    /\ IF fitnesses = <<>>
       THEN /\ Raise("ValueError")
            /\ UNCHANGED <<tracker, printed, next_generation>>
       ELSE LET max_fitness_idx == Index(fitnesses, Max(Range(fitnesses)))
                best_fitness_this_gen == fitnesses[max_fitness_idx]
                best_architecture_this_gen == population[max_fitness_idx]
            IN  /\ IF Improves(best_fitness_this_gen)
                   THEN /\ best_overall_fitness' = best_fitness_this_gen
                        /\ best_overall_architecture' = Some(best_architecture_this_gen)
                   ELSE UNCHANGED tracker
                /\ printed' = Append(printed,
                                [line         |-> "generation_best",
                                 generation   |-> generation + 1,
                                 fitness      |-> best_fitness_this_gen,
                                 architecture |-> Some(best_architecture_this_gen)])
                /\ next_generation' = CarryOver(parents)
                /\ pc' = "Breed"
                /\ UNCHANGED error
    /\ UNCHANGED <<config, heap, population, generation, fitnesses, parents, parent1,
                   parent2, child, mutation_rate, network, epochs_run, validation_accuracy,
                   saved, evaluated, evaluated_fitnesses, phases>>

\* a breeding loop that runs once too often
NeedsChild_one_more == Len(next_generation) <= population_size

\* the test of line 425
NeedsChild == Len(next_generation) < population_size

\* lines 425-427; random.sample raises ValueError on fewer than 2 parents
Crossover ==
    /\ pc = "Breed"
    /\ NeedsChild
    /\ IF Len(parents) < 2
       THEN /\ Raise("ValueError")
            /\ UNCHANGED <<parent1, parent2, child>>
       ELSE \E pr \in SamplePairs(Len(parents)) :
              \E coins \in CoinDraws(Min(Len(parents[pr[1]]), Len(parents[pr[2]]))) :
                /\ parent1' = Some(parents[pr[1]])
                /\ parent2' = Some(parents[pr[2]])
                /\ child' = Some(crossover(parents[pr[1]], parents[pr[2]], coins))
                /\ pc' = "Mutate"
                /\ UNCHANGED error
    /\ UNCHANGED <<config, heap, population, generation, fitnesses, parents,
                   mutation_rate, next_generation, tracker, network, epochs_run,
                   validation_accuracy, saved, printed, evaluated,
                   evaluated_fitnesses, phases>>

\* lines 428-429
Mutate ==
    /\ pc = "Mutate"
    /\ \E draws \in MutationDraws(Len(child[1]), MutationRate, Rolls, SampledPicks) :
         /\ child' = Some(mutate(child[1], draws))
         /\ next_generation' = Append(next_generation, mutate(child[1], draws))
    /\ mutation_rate' = Some(MutationRate)
    /\ pc' = "Breed"
    /\ UNCHANGED <<config, heap, population, generation, fitnesses, parents, parent1,
                   parent2, tracker, network, epochs_run, printed, outcome, evaluated,
                   evaluated_fitnesses, phases>>

\* line 430 and the step of the loop of line 386
EndBreed ==
    /\ pc = "Breed"
    /\ ~NeedsChild
    /\ population' = next_generation
    /\ generation' = generation + 1
    /\ pc' = "Loop"
    /\ UNCHANGED <<config, heap, fitnesses, parents, breeding, tracker, network, epochs_run,
                   printed, outcome, evaluated, evaluated_fitnesses, phases>>

\* lines 432-440
Terminate ==
    /\ pc = "Terminate"
    /\ printed' = Append(printed,
                    [line         |-> "final_summary",
                     fitness      |-> best_overall_fitness,
                     architecture |-> IF best_overall_architecture = None THEN None
                                      ELSE Some(best_overall_architecture[1])])
    /\ pc' = "Retrain"
    /\ UNCHANGED <<config, heap, population, generation, fitnesses, parents, breeding,
                   tracker, network, epochs_run, outcome, evaluated, evaluated_fitnesses, phases>>

\* lines 444-486; iterating over None in Net.__init__ raises TypeError
Retrain ==
    /\ pc = "Retrain"
    /\ IF best_overall_architecture = None
       THEN /\ Raise("TypeError")
            /\ UNCHANGED <<network, epochs_run, validation_accuracy>>
       ELSE /\ network' = Some(Net(best_overall_architecture[1], input_dim, num_classes))
            /\ epochs_run' = RangeLen(EPOCHS)
            /\ \E accuracy \in Accuracies : validation_accuracy' = Some(accuracy)
            /\ pc' = "Report"
            /\ UNCHANGED error
    /\ UNCHANGED <<config, heap, population, generation, fitnesses, parents, breeding,
                   tracker, saved, printed, evaluated, evaluated_fitnesses, phases>>

\* lines 487-492
Report ==
    /\ pc = "Report"
    /\ printed' = Append(printed,
                    [line     |-> "validation",
                     accuracy |-> validation_accuracy[1]])
    /\ saved' = network
    /\ pc' = "Done"
    /\ UNCHANGED <<config, heap, population, generation, fitnesses, parents, breeding,
                   tracker, network, epochs_run, validation_accuracy, error, evaluated,
                   evaluated_fitnesses, phases>>

Next ==
    \/ StartGeneration
    \/ EvaluateGenome
    \/ Select
    \/ Track
    \/ Crossover
    \/ Mutate
    \/ EndBreed
    \/ Terminate
    \/ Retrain
    \/ Report

Spec == Init /\ [][Next]_vars

\* the interpreter runs the script to its end: weak fairness of its next step
FairSpec == Spec /\ WF_vars(Next)

----------------------------------------------------------------------------
(* The script from line 380 on, for any configuration: the blueprint and   *)
(* the hyper-parameters are taken as they are, nothing validates them.     *)

\* the state in which line 380 is reached
BeforeSetup(epochs, size, gens, k, bp) ==
    /\ EPOCHS = epochs
    /\ population_size = size
    /\ num_generations = gens
    /\ num_parents = k
    /\ blueprint = bp
    /\ input_dim = Nsamps
    /\ num_classes = Nclasses
    /\ heap = <<>>
    /\ population = <<>>
    /\ generation = 0
    /\ fitnesses = <<>>
    /\ parents = <<>>
    /\ parent1 = None
    /\ parent2 = None
    /\ child = None
    /\ mutation_rate = None
    /\ next_generation = <<>>
    /\ best_overall_fitness = None
    /\ best_overall_architecture = None
    /\ network = None
    /\ epochs_run = 0
    /\ validation_accuracy = None
    /\ saved = None
    /\ printed = <<>>
    /\ error = None
    /\ evaluated = <<>>
    /\ evaluated_fitnesses = {}
    /\ phases = 0
    /\ pc = "Setup"

\* lines 380-384.  For the first individual random.randint(1, max_n_layers)
\* raises ValueError on an empty range (line 198) and random.choice raises
\* IndexError on an empty list (lines 201-203).
GenerateInitialPopulation ==
    /\ pc = "Setup"
    /\ IF population_size > 0 /\ blueprint.max_n_layers < 1
       THEN /\ Raise("ValueError")
            /\ UNCHANGED <<population, tracker>>
       ELSE IF population_size > 0 /\ (\/ blueprint.neurons = <<>>
                                       \/ blueprint.activations = <<>>
                                       \/ blueprint.dropout = <<>>)
       THEN /\ Raise("IndexError")
            /\ UNCHANGED <<population, tracker>>
       ELSE /\ \E draws \in PopulationDraws(population_size, blueprint) :
                 population' = generate_initial_population(population_size, blueprint, draws)
            /\ best_overall_fitness' = NegInf
            /\ best_overall_architecture' = None
            /\ pc' = "Loop"
            /\ UNCHANGED error
    /\ UNCHANGED <<config, heap, generation, fitnesses, parents, breeding, network,
                   epochs_run, validation_accuracy, saved, printed, evaluated,
                   evaluated_fitnesses, phases>>

\* hyper-parameter values on both sides of zero, and the value of line 18
EpochValues == {-1, 0, SourceEpochs}

\* the blueprint with no neuron candidate
NoNeurons == [BoundedBlueprint EXCEPT !.neurons = <<>>]

ConfigInit ==
    \E epochs \in EpochValues, size \in 1..MaxPop, gens \in 0..MaxGen, k \in 1..MaxPop :
        \E bp \in {BoundedBlueprint, NoNeurons} :
            /\ size * gens <= MaxEvals
            /\ BeforeSetup(epochs, size, gens, k, bp)

ConfigNext ==
    \/ GenerateInitialPopulation
    \/ Next

ConfigSpec == ConfigInit /\ [][ConfigNext]_vars

----------------------------------------------------------------------------
(* The script with its genomes kept as Python keeps them: a genome is a     *)
(* list of references to gene dicts, heap[id] is the dict behind reference *)
(* id.  Lists are never changed once another name holds them (crossover    *)
(* fills a list of its own, line 258; next_generation is the copy          *)
(* parents[:], line 424), so a list is kept by value; a dict is changed in *)
(* place by mutate (lines 292-296).                                        *)

\* the gene dicts of a genome held as a list of references
ByReference(genome) == [i \in 1..Len(genome) |-> heap[genome[i]]]

\* the number of gene dicts made before those of individual i (line 200
\* makes one dict per layer, individual after individual)
RECURSIVE Offset(_, _)
Offset(pop, i) == IF i = 1 THEN 0 ELSE Offset(pop, i - 1) + Len(pop[i - 1])

\* the dicts made by generate_initial_population, and the lists that hold them
PopulationObjects(pop) ==
    [id \in 1..Offset(pop, Len(pop) + 1) |->
        LET i == CHOOSE i \in 1..Len(pop) : Offset(pop, i) < id /\ id <= Offset(pop, i + 1)
        IN  pop[i][id - Offset(pop, i)]]

PopulationReferences(pop) ==
    [i \in 1..Len(pop) |-> [j \in 1..Len(pop[i]) |-> Offset(pop, i) + j]]

\* lines 380-384
GenerateInitialPopulationObj ==
    /\ pc = "Setup"
    /\ IF population_size > 0 /\ blueprint.max_n_layers < 1
       THEN /\ Raise("ValueError")
            /\ UNCHANGED <<heap, population, tracker>>
       ELSE IF population_size > 0 /\ (\/ blueprint.neurons = <<>>
                                       \/ blueprint.activations = <<>>
                                       \/ blueprint.dropout = <<>>)
       THEN /\ Raise("IndexError")
            /\ UNCHANGED <<heap, population, tracker>>
       ELSE /\ \E draws \in PopulationDraws(population_size, blueprint) :
                 LET pop == generate_initial_population(population_size, blueprint, draws)
                 IN  /\ heap' = PopulationObjects(pop)
                     /\ population' = PopulationReferences(pop)
            /\ best_overall_fitness' = NegInf
            /\ best_overall_architecture' = None
            /\ pc' = "Loop"
            /\ UNCHANGED error
    /\ UNCHANGED <<config, generation, fitnesses, parents, breeding, network,
                   epochs_run, validation_accuracy, saved, printed, evaluated,
                   evaluated_fitnesses, phases>>

\* lines 390-405
EvaluateGenomeObj ==
    /\ pc = "EvaluateGeneration"
    /\ Len(fitnesses) < Len(population)
    /\ LET genome == ByReference(population[Len(fitnesses) + 1])
       IN  \E fitness \in Accuracies :
             /\ network' = Some(Net(genome, input_dim, num_classes))
             /\ epochs_run' = RangeLen(EPOCHS)
             /\ fitnesses' = Append(fitnesses, fitness)
             /\ evaluated' = Append(evaluated, genome)
             /\ evaluated_fitnesses' = evaluated_fitnesses \cup {fitness}
    /\ pc' = IF Len(fitnesses') < Len(population) THEN "EvaluateGeneration" ELSE "Select"
    /\ UNCHANGED <<config, heap, population, generation, parents, breeding, tracker,
                   printed, outcome, phases>>

\* lines 410-424
TrackObj ==
    /\ pc = "Track"
    /\ IF fitnesses = <<>>
       THEN /\ Raise("ValueError")
            /\ UNCHANGED <<tracker, printed, next_generation>>
       ELSE LET max_fitness_idx == Index(fitnesses, Max(Range(fitnesses)))
                best_fitness_this_gen == fitnesses[max_fitness_idx]
                best_architecture_this_gen == population[max_fitness_idx]
            IN  /\ IF Improves(best_fitness_this_gen)
                   THEN /\ best_overall_fitness' = best_fitness_this_gen
                        /\ best_overall_architecture' = Some(best_architecture_this_gen)
                   ELSE UNCHANGED tracker
                /\ printed' = Append(printed,
                                [line         |-> "generation_best",
                                 generation   |-> generation + 1,
                                 fitness      |-> best_fitness_this_gen,
                                 architecture |-> Some(ByReference(best_architecture_this_gen))])
                /\ next_generation' = CarryOver(parents)
                /\ pc' = "Breed"
                /\ UNCHANGED error
    /\ UNCHANGED <<config, heap, population, generation, fitnesses, parents, parent1,
                   parent2, child, mutation_rate, network, epochs_run, validation_accuracy,
                   saved, evaluated, evaluated_fitnesses, phases>>

\* a child that takes over the dict of parent1 wherever it ends up equal to it
NewGenes_shared(h, genes, p1) ==
    [heap |-> h \o genes,
     refs |-> [i \in 1..Len(genes) |->
                  IF genes[i] = h[p1[i]] THEN p1[i] ELSE Len(h) + i]]

\* lines 258-267: child = [] and one child_gene = {} per position
NewGenes(h, genes, p1) ==
    [heap |-> h \o genes,
     refs |-> [i \in 1..Len(genes) |-> Len(h) + i]]

\* lines 425-427
CrossoverObj ==
    /\ pc = "Breed"
    /\ NeedsChild
    /\ IF Len(parents) < 2
       THEN /\ Raise("ValueError")
            /\ UNCHANGED <<heap, parent1, parent2, child>>
       ELSE \E pr \in SamplePairs(Len(parents)) :
              \E coins \in CoinDraws(Min(Len(parents[pr[1]]), Len(parents[pr[2]]))) :
                LET p1 == parents[pr[1]]
                    p2 == parents[pr[2]]
                    genes == crossover(ByReference(p1), ByReference(p2), coins)
                    made == NewGenes(heap, genes, p1)
                IN  /\ parent1' = Some(p1)
                    /\ parent2' = Some(p2)
                    /\ heap' = made.heap
                    /\ child' = Some(made.refs)
                    /\ pc' = "Mutate"
                    /\ UNCHANGED error
    /\ UNCHANGED <<config, population, generation, fitnesses, parents,
                   mutation_rate, next_generation, tracker, network, epochs_run,
                   validation_accuracy, saved, printed, evaluated,
                   evaluated_fitnesses, phases>>

\* lines 428-429: mutate writes into the dicts of the list it is handed and
\* returns that list
MutateObj ==
    /\ pc = "Mutate"
    /\ \E draws \in MutationDraws(Len(child[1]), MutationRate, Rolls, SampledPicks) :
         LET genes == mutate(ByReference(child[1]), draws)
         IN  heap' = [id \in DOMAIN heap |->
                        IF \E i \in 1..Len(child[1]) : child[1][i] = id
                        THEN genes[CHOOSE i \in 1..Len(child[1]) : child[1][i] = id]
                        ELSE heap[id]]
    /\ next_generation' = Append(next_generation, child[1])
    /\ mutation_rate' = Some(MutationRate)
    /\ pc' = "Breed"
    /\ UNCHANGED <<config, population, generation, fitnesses, parents, parent1,
                   parent2, child, tracker, network, epochs_run, printed, outcome,
                   evaluated, evaluated_fitnesses, phases>>

\* lines 432-440
TerminateObj ==
    /\ pc = "Terminate"
    /\ printed' = Append(printed,
                    [line         |-> "final_summary",
                     fitness      |-> best_overall_fitness,
                     architecture |-> IF best_overall_architecture = None THEN None
                                      ELSE Some(ByReference(best_overall_architecture[1]))])
    /\ pc' = "Retrain"
    /\ UNCHANGED <<config, heap, population, generation, fitnesses, parents, breeding,
                   tracker, network, epochs_run, outcome, evaluated, evaluated_fitnesses, phases>>

\* lines 444-486
RetrainObj ==
    /\ pc = "Retrain"
    /\ IF best_overall_architecture = None
       THEN /\ Raise("TypeError")
            /\ UNCHANGED <<network, epochs_run, validation_accuracy>>
       ELSE /\ network' = Some(Net(ByReference(best_overall_architecture[1]), input_dim, num_classes))
            /\ epochs_run' = RangeLen(EPOCHS)
            /\ \E accuracy \in Accuracies : validation_accuracy' = Some(accuracy)
            /\ pc' = "Report"
            /\ UNCHANGED error
    /\ UNCHANGED <<config, heap, population, generation, fitnesses, parents, breeding,
                   tracker, saved, printed, evaluated, evaluated_fitnesses, phases>>

ObjInit ==
    \E size \in 1..MaxPop, gens \in 0..MaxGen, k \in 1..MaxPop :
        /\ size * gens <= MaxEvals
        /\ BeforeSetup(SourceEpochs, size, gens, k, BoundedBlueprint)

ObjNext ==
    \/ GenerateInitialPopulationObj
    \/ StartGeneration
    \/ EvaluateGenomeObj
    \/ Select
    \/ TrackObj
    \/ CrossoverObj
    \/ MutateObj
    \/ EndBreed
    \/ TerminateObj
    \/ RetrainObj
    \/ Report

ObjSpec == ObjInit /\ [][ObjNext]_vars

----------------------------------------------------------------------------
(* The end-to-end scenario: blueprint {max_n_layers: 2, neurons: [4, 8],    *)
(* activations: [relu], dropout: [None]}, population_size = 4,             *)
(* num_generations = 2, num_parents = 2.                                   *)

ScenarioBlueprint ==
    [max_n_layers |-> 2,
     neurons      |-> <<4, 8>>,
     activations  |-> <<"relu">>,
     dropout      |-> <<None>>]

\* the draws of generate_initial_population under two seeds: genomes
\* [4], [8], [4, 8], [8] and genomes [4], [8], [4], [8]
ScenarioSeeds ==
    {<< <<<<1, 1, 1>>>>, <<<<2, 1, 1>>>>, <<<<1, 1, 1>>, <<2, 1, 1>>>>, <<<<2, 1, 1>>>> >>,
     << <<<<1, 1, 1>>>>, <<<<2, 1, 1>>>>, <<<<1, 1, 1>>>>, <<<<2, 1, 1>>>> >>}

ScenarioInit == Setup(4, 2, 2, ScenarioBlueprint, ScenarioSeeds)

ScenarioSpec == ScenarioInit /\ [][Next]_vars

----------------------------------------------------------------------------
(* The operators on their own: selection, crossover and mutate applied to  *)
(* bounded inputs.                                                         *)

\* two genes that differ in every attribute; the second lies outside the
\* candidate lists of mutate
GeneA == [num_neurons |-> 4, activation |-> "relu", dropout_rate |-> None]
GeneB == [num_neurons |-> 256, activation |-> "leaky_relu", dropout_rate |-> Some(5)]

InputGenomes == UNION {[1..n -> {GeneA, GeneB}] : n \in 0..MaxLen}

Individuals == {<<GeneA>>, <<GeneB>>, <<GeneA, GeneB>>}

\* the state around a call: everything the call does not read is at rest
AtCall(size, k, pop, fs, ps, c, rate, at) ==
    /\ population_size = size
    /\ num_generations = 1
    /\ num_parents = k
    /\ blueprint = SourceBlueprint
    /\ EPOCHS = SourceEpochs
    /\ input_dim = Nsamps
    /\ num_classes = Nclasses
    /\ heap = <<>>
    /\ population = pop
    /\ generation = 0
    /\ fitnesses = fs
    /\ parents = ps
    /\ parent1 = None
    /\ parent2 = None
    /\ child = c
    /\ mutation_rate = rate
    /\ next_generation = <<>>
    /\ best_overall_fitness = NegInf
    /\ best_overall_architecture = None
    /\ network = None
    /\ epochs_run = 0
    /\ validation_accuracy = None
    /\ saved = None
    /\ printed = <<>>
    /\ error = None
    /\ evaluated = pop
    /\ evaluated_fitnesses = Range(fs)
    /\ phases = 1
    /\ pc = at

\* blueprints of up to MaxLen layers in which one list holds two candidates
InputBlueprints ==
    {[max_n_layers |-> m,
      neurons      |-> Head_n(SourceBlueprint.neurons, c[1]),
      activations  |-> Head_n(SourceBlueprint.activations, c[2]),
      dropout      |-> Head_n(SourceBlueprint.dropout, c[3])] :
        m \in 1..MaxLen, c \in {<<2, 1, 1>>, <<1, 2, 1>>, <<1, 1, 2>>}}

\* generate_initial_population(size, blueprint) for sizes from 0 to MaxPop
PopulationInit ==
    \E size \in 0..MaxPop, bp \in InputBlueprints :
        BeforeSetup(SourceEpochs, size, 1, 1, bp)

PopulationSpec == PopulationInit /\ [][GenerateInitialPopulation]_vars

\* compute_fitness about to build Net(genome, D, K), for genomes of 0 to
\* MaxLen genes and widths from 1 to MaxWidth
NetInit ==
    \E genome \in InputGenomes, d \in 1..MaxWidth, k \in 1..MaxWidth :
        /\ EPOCHS = SourceEpochs
        /\ population_size = 1
        /\ num_generations = 1
        /\ num_parents = 1
        /\ blueprint = SourceBlueprint
        /\ input_dim = d
        /\ num_classes = k
        /\ heap = <<>>
        /\ population = <<genome>>
        /\ generation = 0
        /\ fitnesses = <<>>
        /\ parents = <<>>
        /\ parent1 = None
        /\ parent2 = None
        /\ child = None
        /\ mutation_rate = None
        /\ next_generation = <<>>
        /\ best_overall_fitness = NegInf
        /\ best_overall_architecture = None
        /\ network = None
        /\ epochs_run = 0
        /\ validation_accuracy = None
        /\ saved = None
        /\ printed = <<>>
        /\ error = None
        /\ evaluated = <<>>
        /\ evaluated_fitnesses = {}
        /\ phases = 1
        /\ pc = "EvaluateGeneration"

NetSpec == NetInit /\ [][EvaluateGenome]_vars

\* selection(population, fitnesses, num_parents) with len(population) >= num_parents
SelectionInit ==
    \E n \in 1..MaxPop :
        \E pop \in [1..n -> Individuals], fs \in [1..n -> 0..MaxFit], k \in 0..n :
            AtCall(n, k, pop, fs, <<>>, None, None, "Select")

SelectionSpec == SelectionInit /\ [][Select]_vars

\* crossover of two parents of any lengths up to MaxLen
CrossoverInit ==
    \E p1 \in InputGenomes, p2 \in InputGenomes :
        AtCall(1, 2, <<>>, <<>>, <<p1, p2>>, None, None, "Breed")

CrossoverSpec == CrossoverInit /\ [][Crossover]_vars

\* the loop of mutate (lines 282-297) entered with mutation_rate 0, 0.1 or 1
MutateLoop ==
    /\ pc = "MutateLoop"
    /\ \E draws \in MutationDraws(Len(child[1]), mutation_rate[1], Rolls, AllPicks) :
         child' = Some(mutate_genes(child[1], mutation_rate[1], draws))
    /\ pc' = "MutateReturn"
    /\ UNCHANGED <<config, heap, population, generation, fitnesses, parents, parent1,
                   parent2, mutation_rate, next_generation, tracker, network, epochs_run,
                   printed, outcome, evaluated, evaluated_fitnesses, phases>>

MutateInit ==
    \E g \in InputGenomes, rate \in {0, MutationRate, 100} :
        AtCall(1, 2, <<>>, <<>>, <<>>, Some(g), Some(rate), "MutateLoop")

MutateSpec == MutateInit /\ [][MutateLoop]_vars

----------------------------------------------------------------------------
(* Properties of the run *)

TrackPending == pc \in {"EvaluateGeneration", "Select", "Track"}

MaxSoFar == IF evaluated_fitnesses = {} THEN NegInf ELSE Max(evaluated_fitnesses)

\* a step that changes the tracker is a Track step of a generation whose best
\* fitness strictly exceeds best_overall_fitness, and it installs that fitness
\* together with the genome at the first position holding it
TrackerStep ==
    /\ best_overall_fitness' >= best_overall_fitness
    /\ tracker' # tracker =>
         /\ pc = "Track"
         /\ fitnesses # <<>>
         /\ Max(Range(fitnesses)) > best_overall_fitness
         /\ best_overall_fitness' = Max(Range(fitnesses))
         /\ best_overall_architecture' =
                Some(population[Index(fitnesses, Max(Range(fitnesses)))])

\* C1: best_overall_fitness never decreases; the tracker (fitness and genome
\* together) is replaced only when the generation's best fitness strictly
\* exceeds it; once a generation is tracked, best_overall_fitness is the
\* maximum of all fitness values evaluated so far in the run.
C1_BestOverallMonotone ==
    /\ [](~TrackPending => best_overall_fitness = MaxSoFar)
    /\ [][TrackerStep]_vars

\* the tracker was replaced in the second generation, after a first
\* generation whose best was lower
C1_Witness ==
    /\ pc = "Breed"
    /\ generation = 1
    /\ Len(printed) = 2
    /\ printed[1].fitness < printed[2].fitness
    /\ best_overall_fitness = printed[2].fitness
    /\ best_overall_architecture # printed[1].architecture

ParentsInRange == 2 <= num_parents /\ num_parents <= population_size

\* C3: for 2 <= num_parents <= population_size the population holds exactly
\* population_size genomes at the start of every generation, and while and
\* after breeding the next generation is the selected parents, verbatim and
\* in selection order, followed by the children bred so far, which number
\* population_size - num_parents when the generation ends.
C3_BreedKeepsParentsAndSize ==
    ParentsInRange =>
        /\ pc \in {"Loop", "EvaluateGeneration"} => Len(population) = population_size
        /\ pc \in {"Breed", "Mutate"} =>
             /\ parents = selection(population, fitnesses, num_parents)
             /\ Len(parents) = num_parents
             /\ Len(next_generation) >= num_parents
             /\ Len(next_generation) <= population_size
             /\ SubSeq(next_generation, 1, num_parents) = parents
        /\ pc = "Loop" /\ generation > 0 =>
             /\ SubSeq(population, 1, num_parents) = parents
             /\ parents = selection(evaluated, fitnesses, num_parents)
             /\ Len(population) - num_parents = population_size - num_parents

\* a generation ended with two parents carried over and one child behind them
C3_Witness ==
    /\ pc = "Loop"
    /\ generation = 2
    /\ num_parents = 2
    /\ population_size = 3
    /\ population[3] # population[1]
    /\ population[3] # population[2]

\* the order of the phases
PhaseStep ==
    /\ pc = "Loop" => pc' = IF generation < num_generations
                            THEN "EvaluateGeneration" ELSE "Terminate"
    /\ pc = "EvaluateGeneration" =>
         /\ pc' \in {"EvaluateGeneration", "Select"}
         /\ Len(fitnesses') = Len(fitnesses) + 1
         /\ evaluated' = Append(evaluated, population[Len(fitnesses) + 1])
         /\ network' = Some(Net(population[Len(fitnesses) + 1], Nsamps, Nclasses))
         /\ (pc' = "Select") = (Len(fitnesses') = Len(population))
    /\ pc = "Select" => pc' = "Track"
    /\ pc = "Track" => pc' \in {"Breed", "Aborted"}
    /\ pc = "Breed" => pc' \in {"Mutate", "Loop", "Aborted"}
    /\ pc = "Mutate" => pc' = "Breed"
    /\ pc = "Terminate" => pc' = "Retrain"
    /\ pc = "Retrain" => pc' \in {"Report", "Aborted"}
    /\ pc = "Report" => pc' = "Done"

\* every genome of the population evaluated once, in population order
Aligned ==
    /\ pc \in {"EvaluateGeneration", "Select", "Track", "Breed", "Mutate"} =>
         /\ Len(fitnesses) <= Len(population)
         /\ evaluated = SubSeq(population, 1, Len(fitnesses))
    /\ pc \in {"Select", "Track", "Breed", "Mutate"} =>
         /\ Len(fitnesses) = Len(population)
         /\ evaluated = population

PhaseCount ==
    /\ phases <= num_generations
    /\ pc \in {"EvaluateGeneration", "Select", "Track", "Breed", "Mutate"} =>
         phases = generation + 1
    /\ pc \in {"Terminate", "Retrain", "Report", "Done"} =>
         phases = num_generations /\ generation = num_generations

\* C4: a run in which no step fails performs exactly num_generations
\* evaluation phases; each evaluates every genome of the population once, one
\* at a time in population order, so that fitnesses[i] belongs to
\* population[i]; Select and Breed follow each phase; after the last
\* generation come Retrain and Report, and the run reaches Report.
C4_PhasesInOrder ==
    /\ [](Aligned /\ PhaseCount)
    /\ [][PhaseStep]_vars
    /\ <>(pc = "Report" \/ pc = "Aborted")

\* a run of two generations over three genomes reported
C4_Witness ==
    /\ pc = "Done"
    /\ num_generations = 2
    /\ population_size = 3
    /\ num_parents = 2
    /\ phases = 2
    /\ Len(printed) = 4

Degenerate == population_size = 1 /\ num_parents = 1 /\ num_generations >= 1

ActivationName(a) ==
    CASE a = "relu" -> "ReLU"
      [] a = "leaky_relu" -> "LeakyReLU"
      [] a = "sigmoid" -> "Sigmoid"
      [] a = "tanh" -> "Tanh"
      [] a = "softmax" -> "Softmax"

RECURSIVE ClaimedHidden(_, _)
ClaimedHidden(genome, width) ==
    IF genome = <<>> THEN <<>>
    ELSE LET gene == Head(genome)
         IN  <<Linear(width, gene.num_neurons), Activation(ActivationName(gene.activation))>>
             \o (IF gene.dropout_rate # None
                 THEN <<Dropout(gene.dropout_rate[1])>> ELSE <<>>)
             \o ClaimedHidden(Tail(genome), gene.num_neurons)

ClaimedNet(genome, D, K) ==
    ClaimedHidden(genome, D) \o <<Linear(LastWidth(genome, D), K)>>

\* C8: for every genome the run evaluates, the model built has, per gene and
\* in order, the fully-connected layer, the activation layer the gene names
\* and a dropout layer exactly when dropout_rate is not None, then one final
\* fully-connected layer to K.
C8_EveryGeneGetsItsActivation ==
    pc \in {"EvaluateGeneration", "Select"} /\ evaluated # <<>> =>
        network = Some(ClaimedNet(evaluated[Len(evaluated)], Nsamps, Nclasses))

\* C10: when a step of the generation loop fails, the output names the
\* generation that failed and carries the Best-Overall fitness and genome
\* accumulated so far.
C10_FailureIsReported ==
    pc = "Aborted" /\ generation < num_generations =>
        \E i \in 1..Len(printed) :
            /\ printed[i].line \in {"failure", "final_summary"}
            /\ printed[i].fitness = best_overall_fitness
            /\ printed[i].architecture = best_overall_architecture
            /\ printed[i].line = "failure" => printed[i].generation = generation + 1

----------------------------------------------------------------------------
(* Properties of the scenario and of the operators *)

WithinScenarioBlueprint(genome) ==
    /\ Len(genome) \in 1..2
    /\ \A i \in 1..Len(genome) :
         /\ genome[i].num_neurons \in {4, 8}
         /\ genome[i].activation = "relu"
         /\ genome[i].dropout_rate = None

\* C2: in the scenario the run completes, and the Best-Overall genome it ends
\* with has 1 or 2 genes, each with num_neurons in {4, 8}, activation relu and
\* dropout_rate None.
C2_ScenarioBestWithinBlueprint ==
    /\ pc # "Aborted"
    /\ pc \in {"Terminate", "Retrain", "Report", "Done"} =>
         /\ best_overall_architecture # None
         /\ WithinScenarioBlueprint(best_overall_architecture[1])

Injective(f) == \A a, b \in DOMAIN f : f[a] = f[b] => a = b

\* idx lists the positions selection took, in the order it returned them
SelectedBy(idx) ==
    /\ Injective(idx)
    /\ \A j \in DOMAIN idx : parents[j] = population[idx[j]]
    /\ \A j \in DOMAIN idx : \A i \in DOMAIN idx :
         i < j => /\ fitnesses[idx[i]] >= fitnesses[idx[j]]
                  /\ fitnesses[idx[i]] = fitnesses[idx[j]] => idx[i] < idx[j]
    /\ \A j \in DOMAIN idx : \A i \in (1..Len(population)) \ Range(idx) :
         /\ fitnesses[idx[j]] >= fitnesses[i]
         /\ fitnesses[idx[j]] = fitnesses[i] => idx[j] < i

\* C5: with len(population) >= k, selection returns exactly k individuals of
\* the population; each has a fitness >= that of every individual left out;
\* they come in descending fitness order, and individuals of equal fitness
\* keep their population order.
C5_SelectionTopKStable ==
    pc = "Track" =>
        /\ Len(parents) = num_parents
        /\ \E idx \in [1..num_parents -> 1..Len(population)] : SelectedBy(idx)

\* two individuals tie for the last place: the earlier one is taken
C5_Witness ==
    /\ pc = "Track"
    /\ population = << <<GeneA>>, <<GeneB>>, <<GeneA, GeneB>> >>
    /\ fitnesses = <<1, 2, 1>>
    /\ num_parents = 2
    /\ parents = << <<GeneB>>, <<GeneA>> >>

\* the child that takes, at position i, attribute key from parent from[i][key]
Mixed(p1, p2, from) ==
    [i \in 1..Len(p1) |-> [key \in Keys |-> IF from[i][key] = 1 THEN p1[i][key] ELSE p2[i][key]]]

\* C6: for parents of equal length the child has their length, and each of
\* its attributes, at every position, is that attribute of parent1 or of
\* parent2 at the same position; the choice is made per attribute: every
\* assignment of attributes to parents is a possible child.
C6_CrossoverUniformPerAttribute ==
    /\ pc = "Mutate" /\ Len(parent1[1]) = Len(parent2[1]) =>
         /\ Len(child[1]) = Len(parent1[1])
         /\ \A i \in 1..Len(child[1]) :
              /\ DOMAIN child[1][i] = Keys
              /\ \A key \in Keys :
                   child[1][i][key] \in {parent1[1][i][key], parent2[1][i][key]}
    /\ pc = "Breed" /\ Len(parents) = 2 /\ NeedsChild /\ Len(parents[1]) = Len(parents[2]) =>
         \A from \in [1..Len(parents[1]) -> [Keys -> {1, 2}]] :
            ENABLED (Crossover /\ parent1' = Some(parents[1])
                               /\ child' = Some(Mixed(parents[1], parents[2], from)))

\* a child gene with the neuron count of one parent and the activation of the other
C6_Witness ==
    /\ pc = "Mutate"
    /\ parent1 = Some(<<GeneA, GeneB>>)
    /\ parent2 = Some(<<GeneB, GeneA>>)
    /\ Len(child[1]) = 2
    /\ child[1][1].num_neurons = GeneA.num_neurons
    /\ child[1][1].activation = GeneB.activation
    /\ child[1][1].dropout_rate = GeneA.dropout_rate

FromCandidates(gene) ==
    /\ gene.num_neurons \in {4, 8, 16, 32}
    /\ gene.activation \in {"relu", "sigmoid", "tanh", "softmax"}
    /\ gene.dropout_rate \in {None, Some(1), Some(2), Some(3)}

MutateLoopStep ==
    pc = "MutateLoop" =>
        /\ Len(child'[1]) = Len(child[1])
        /\ \A i \in 1..Len(child[1]) :
             /\ DOMAIN child'[1][i] = Keys
             /\ child'[1][i] = child[1][i] \/ FromCandidates(child'[1][i])
        /\ mutation_rate = Some(0) => child' = child
        /\ mutation_rate = Some(100) =>
             \A i \in 1..Len(child[1]) : FromCandidates(child'[1][i])

\* C7: mutate leaves each gene with all three attributes unchanged or with
\* all three taken from the candidate sets {4, 8, 16, 32}, {relu, sigmoid,
\* tanh, softmax}, {None, 0.1, 0.2, 0.3}, gene by gene; the gene count stays;
\* with mutation_rate 0 the genome is unchanged, with mutation_rate 1 every
\* gene is redrawn.
C7_MutateWholeGenes == [][MutateLoopStep]_vars

\* at rate 0.1 the first gene was redrawn and the second, which lies outside
\* the candidate sets, was left alone
C7_Witness ==
    /\ pc = "MutateReturn"
    /\ mutation_rate = Some(MutationRate)
    /\ Len(child[1]) = 2
    /\ child[1][1] = [num_neurons |-> 32, activation |-> "softmax", dropout_rate |-> Some(3)]
    /\ child[1][2] = GeneB

----------------------------------------------------------------------------
(* Properties of the set-up *)

Malformed == blueprint.neurons = <<>> \/ EPOCHS <= 0

\* C11: with an empty neuron-candidate list in the blueprint, or with a
\* non-positive EPOCHS, the run fails before the generation loop starts: no
\* evaluation phase begins and no model is ever built or trained.
C11_MalformedFailsFast ==
    Malformed =>
        /\ phases = 0
        /\ evaluated = <<>>
        /\ network = None
        /\ pc \notin {"Report", "Done"}

\* C12: generate_initial_population(N, bp) returns exactly N genomes; every
\* genome has between 1 and bp.max_n_layers genes; every gene has the three
\* keys, with num_neurons in bp.neurons, activation in bp.activations and
\* dropout_rate in bp.dropout.
C12_InitialPopulationFromBlueprint ==
    pc # "Setup" =>
        /\ pc = "Loop"
        /\ Len(population) = population_size
        /\ \A i \in 1..Len(population) :
             /\ Len(population[i]) \in 1..blueprint.max_n_layers
             /\ \A j \in 1..Len(population[i]) :
                  /\ DOMAIN population[i][j] = Keys
                  /\ population[i][j].num_neurons \in Range(blueprint.neurons)
                  /\ population[i][j].activation \in Range(blueprint.activations)
                  /\ population[i][j].dropout_rate \in Range(blueprint.dropout)

\* three genomes of one and of two layers, drawn from two dropout candidates
C12_Witness ==
    /\ pc = "Loop"
    /\ population_size = 3
    /\ Len(blueprint.dropout) = 2
    /\ Len(population[1]) = 1
    /\ Len(population[2]) = 2
    /\ population[2][1].dropout_rate = None
    /\ population[2][2].dropout_rate = Some(1)

IsLinear(l) == l.layer = "Linear"

\* the fully-connected layers of the model built last, in order
FullyConnected == SelectSeq(network[1], IsLinear)

\* C13: for any genome and D, K >= 1 the first fully-connected layer of the
\* model has input width D, every later one has the previous gene's
\* num_neurons as its input width, and the last one has output width K; for
\* the empty genome the model is the single layer Linear(D, K), and the build
\* is not rejected.
C13_BuilderWidths ==
    /\ pc # "Aborted"
    /\ pc = "Select" =>
         LET genome == population[1]
             fc == FullyConnected
         IN  /\ Len(fc) = Len(genome) + 1
             /\ fc[1].in_features = input_dim
             /\ \A i \in 2..Len(fc) : fc[i].in_features = genome[i - 1].num_neurons
             /\ fc[Len(fc)].out_features = num_classes
             /\ genome = <<>> => network = Some(<<Linear(input_dim, num_classes)>>)

\* a two-gene genome built between widths 3 and 2
C13_Witness ==
    /\ pc = "Select"
    /\ population = << <<GeneA, GeneB>> >>
    /\ input_dim = 3
    /\ num_classes = 2
    /\ FullyConnected = <<Linear(3, 4), Linear(4, 256), Linear(256, 2)>>

----------------------------------------------------------------------------
(* Properties of the run on references *)

Ids(genome) == Range(genome)

\* the dicts of the genomes that were scored: the population, the selected
\* parents and the Best-Overall genome
ScoredIds ==
    UNION {Ids(population[i]) : i \in 1..Len(population)}
    \cup UNION {Ids(parents[i]) : i \in 1..Len(parents)}
    \cup (IF best_overall_architecture = None THEN {} ELSE Ids(best_overall_architecture[1]))

\* a dict, once made, stays; only Mutate writes into one, and only into a
\* dict of the child that no scored genome holds
HeapStep ==
    \A id \in DOMAIN heap :
        /\ id \in DOMAIN heap'
        /\ heap'[id] # heap[id] =>
             /\ pc = "Mutate"
             /\ id \in Ids(child[1])
             /\ id \notin ScoredIds

\* the genome printed as the best of the generation that set best_overall_fitness
BestAsScored ==
    printed[CHOOSE i \in 1..Len(printed) :
                /\ printed[i].line = "generation_best"
                /\ printed[i].fitness = best_overall_fitness
                /\ \A j \in 1..(i - 1) : printed[j].fitness # best_overall_fitness].architecture

\* what holds of the dicts in every state
ScoredKept ==
    /\ pc = "Mutate" =>
         /\ Ids(child[1]) \cap (Ids(parent1[1]) \cup Ids(parent2[1])) = {}
         /\ Ids(child[1]) \cap ScoredIds = {}
    /\ pc \in {"Select", "Track", "Breed", "Mutate"} =>
         \A i \in 1..Len(population) : ByReference(population[i]) = evaluated[i]
    /\ best_overall_architecture # None =>
         Some(ByReference(best_overall_architecture[1])) = BestAsScored
    /\ pc \in {"Report", "Done"} =>
         network = Some(Net(BestAsScored[1], input_dim, num_classes))

\* C14: crossover followed by the in-place mutate of the child never changes
\* a gene of a genome that was scored (the evaluated population, the parents
\* carried over, the Best-Overall genome): the child shares no gene dict
\* with either parent; so the genome rebuilt in Retrain is, gene for gene,
\* the genome that obtained best_overall_fitness.
C14_BreedLeavesScoredGenomes == [][HeapStep]_vars /\ []ScoredKept

\* a run of two generations ended; a child was mutated to softmax on the
\* way, and the Best-Overall genome dates from the first generation
C14_Witness ==
    /\ pc = "Done"
    /\ num_generations = 2
    /\ printed[1].fitness > printed[2].fitness
    /\ \E id \in DOMAIN heap : heap[id].activation = "softmax"
    /\ \A id \in Ids(best_overall_architecture[1]) : heap[id].activation = "relu"

----------------------------------------------------------------------------
(* Properties of the genomes of a run *)

\* positive neuron counts, dropout candidates None or strictly between 0 and 1
ValidBlueprint(bp) ==
    /\ bp.max_n_layers >= 1
    /\ bp.neurons # <<>> /\ bp.activations # <<>> /\ bp.dropout # <<>>
    /\ \A n \in Range(bp.neurons) : n > 0
    /\ \A d \in Range(bp.dropout) : d = None \/ (0 < d[1] /\ d[1] < 10)

WellFormed(genome, bp) ==
    /\ Len(genome) \in 1..bp.max_n_layers
    /\ \A i \in 1..Len(genome) :
         /\ genome[i].num_neurons > 0
         /\ genome[i].activation \in {"relu", "leaky_relu", "sigmoid", "tanh", "softmax"}
         /\ \/ genome[i].dropout_rate = None
            \/ (0 < genome[i].dropout_rate[1] /\ genome[i].dropout_rate[1] < 10)

\* C15: given a valid blueprint, in every generation every genome of the
\* population (and of the next generation being bred) has between 1 and
\* max_n_layers genes, each with num_neurons > 0, an activation among relu,
\* leaky_relu, sigmoid, tanh, softmax, and a dropout_rate that is None or
\* lies strictly between 0 and 1.
C15_GenomesWellFormed ==
    ValidBlueprint(blueprint) =>
        /\ \A i \in 1..Len(population) : WellFormed(population[i], blueprint)
        /\ \A i \in 1..Len(next_generation) : WellFormed(next_generation[i], blueprint)

\* the second generation holds a child that mutate has redrawn
C15_Witness ==
    /\ pc = "EvaluateGeneration"
    /\ generation = 1
    /\ population_size = 3
    /\ Len(population) = 3
    /\ population[3] = <<[num_neurons |-> 32, activation |-> "softmax", dropout_rate |-> Some(3)]>>
    /\ Len(population[1]) = 2

\* the largest genome length in a population
Longest(pop) == IF pop = <<>> THEN 0 ELSE Max({Len(pop[i]) : i \in 1..Len(pop)})

\* the child has the length of the shorter parent, position by position
ChildTruncated ==
    pc = "Mutate" =>
        /\ Len(child[1]) = Min(Len(parent1[1]), Len(parent2[1]))
        /\ \A i \in 1..Len(child[1]) : \A key \in Keys :
             child[1][i][key] \in {parent1[1][i][key], parent2[1][i][key]}

\* C16: the child of parents with different gene counts has the length of
\* the shorter parent, the positions beyond it being dropped; so, with
\* num_parents >= 2, the largest genome length in the population never
\* increases from one generation to the next.
C16_LongestNeverGrows ==
    /\ []ChildTruncated
    /\ [][num_parents >= 2 => Longest(population') <= Longest(population)]_vars

\* a generation ended whose last child was bred from a two-gene and a
\* one-gene parent
C16_Witness ==
    /\ pc = "Loop"
    /\ generation = 1
    /\ num_parents = 2
    /\ population_size = 3
    /\ Len(parent1[1]) = 2
    /\ Len(parent2[1]) = 1
    /\ Len(population[3]) = 1
    /\ Longest(evaluated) = 2

\* the first position whose fitness no other position exceeds
FirstMax ==
    CHOOSE i \in 1..Len(fitnesses) :
        /\ \A j \in 1..Len(fitnesses) : fitnesses[j] <= fitnesses[i]
        /\ \A j \in 1..(i - 1) : fitnesses[j] < fitnesses[i]

\* the genome Track recorded as the best of the generation tracked last
RecordedBest == printed[Len(printed)].architecture

\* the generation tracked last replaced the Best-Overall tracker
ReplacedLast ==
    \A j \in 1..(Len(printed) - 1) : printed[j].fitness < printed[Len(printed)].fitness

BestIsFirstParent ==
    num_parents >= 1 =>
        /\ pc \in {"Breed", "Mutate"} =>
             /\ parents # <<>>
             /\ parents[1] = population[FirstMax]
             /\ RecordedBest = Some(parents[1])
             /\ next_generation[1] = parents[1]
             /\ ReplacedLast => best_overall_architecture = Some(parents[1])
        /\ pc = "Loop" /\ generation > 0 =>
             /\ population[1] = evaluated[FirstMax]
             /\ RecordedBest = Some(population[1])
             /\ ReplacedLast => best_overall_architecture = Some(population[1])

\* C17: for num_parents >= 1 the genome recorded as the generation's best
\* (the first position holding the maximum fitness) is the first selected
\* parent, also when several genomes tie for the maximum, and it is the first
\* genome of the next population; whenever a generation replaces the
\* Best-Overall tracker, the new Best-Overall genome is that first parent
\* and so a member of the next population.
C17_BestIsCarriedOver ==
    /\ []BestIsFirstParent
    /\ [][num_parents >= 1 /\ tracker' # tracker =>
              best_overall_architecture' = Some(parents[1])]_vars

\* two different genomes tied for the maximum; the earlier one leads the
\* next population and is the Best-Overall genome
C17_Witness ==
    /\ pc = "Loop"
    /\ generation = 1
    /\ population_size = 3
    /\ num_parents = 2
    /\ fitnesses[2] = 1
    /\ fitnesses[3] = 1
    /\ fitnesses[1] = 0
    /\ evaluated[2] # evaluated[3]
    /\ population[1] = evaluated[2]
    /\ best_overall_architecture = Some(evaluated[2])

====
